---- MODULE Spec2Model ----
(***************************************************************************)
(* A model of backend/main.py of icc_rankings_api: the global DataFrame    *)
(* `df`, load_data / refresh that replace it, and the request handlers     *)
(* that read it.                                                           *)
(*                                                                         *)
(* Text is a sequence of one-character strings, so that substring and      *)
(* regular-expression search are computed character by character.  A      *)
(* DataFrame is a record [cols, dtype, rows]: its column names, the dtype  *)
(* of its Date column ("object" as read_csv leaves it, "datetime64" after  *)
(* pd.to_datetime) and its rows in index order (the default RangeIndex).   *)
(*                                                                         *)
(* FastAPI runs these `def` handlers on a thread pool, so /refresh runs    *)
(* beside the other requests.  A step of a thread is what it does between  *)
(* two loads of the global `df`; the in-place assignment of the Date       *)
(* column is taken as one step.  One load_data call and one query request  *)
(* are in progress at a time.                                              *)
(***************************************************************************)
EXTENDS Integers, Sequences, FiniteSets, TLC

\* ------------------------------------------------------------------ text

\* str.lower() on the characters the model uses.
Lower(c) == CASE c = "A" -> "a" [] c = "B" -> "b" [] c = "C" -> "c" [] OTHER -> c

LowerStr(s) == [i \in 1..Len(s) |-> Lower(s[i])]

\* Python's `needle in hay` on str.
Contains(hay, needle) ==
    \E k \in 0..(Len(hay) - Len(needle)) : SubSeq(hay, k + 1, k + Len(needle)) = needle

\* One pattern character of a compiled re pattern (flags=re.IGNORECASE) against one
\* character of the subject: "." matches any character but a newline (none here),
\* any other character of the model's alphabet matches itself, ignoring case.
RegexCharMatch(p, c) == IF p = "." THEN TRUE ELSE Lower(p) = Lower(c)

\* re.search(pat, s, re.IGNORECASE) is not None, for patterns made of literal
\* characters and ".": what Series.str.contains(pat, case=False) computes per
\* element, its regex parameter left at the default True.
RegexSearch(pat, s) ==
    \E k \in 0..(Len(s) - Len(pat)) : \A i \in 1..Len(pat) : RegexCharMatch(pat[i], s[k + i])

\* The code point order of the model's characters (Python compares str by it).
Ord(c) ==
    CASE c = " " -> 32 [] c = "," -> 44 [] c = "." -> 46
      [] c = "A" -> 65 [] c = "B" -> 66 [] c = "C" -> 67
      [] c = "a" -> 97 [] c = "b" -> 98 [] c = "c" -> 99
      [] OTHER -> 127

RECURSIVE StrLess(_, _)
StrLess(s, t) ==
    IF t = <<>> THEN FALSE
    ELSE IF s = <<>> THEN TRUE
    ELSE IF Ord(Head(s)) # Ord(Head(t)) THEN Ord(Head(s)) < Ord(Head(t))
    ELSE StrLess(Tail(s), Tail(t))

\* str.strip() of the blanks at both ends.
RECURSIVE LStrip(_)
LStrip(s) == IF s # <<>> /\ Head(s) = " " THEN LStrip(Tail(s)) ELSE s

RECURSIVE RStrip(_)
RStrip(s) ==
    IF s # <<>> /\ s[Len(s)] = " " THEN RStrip(SubSeq(s, 1, Len(s) - 1)) ELSE s

Strip(s) == LStrip(RStrip(s))

\* str.split(","): the pieces between the commas, empty pieces kept.
RECURSIVE SplitComma(_, _)
SplitComma(s, cur) ==
    IF s = <<>> THEN <<cur>>
    ELSE IF Head(s) = "," THEN <<cur>> \o SplitComma(Tail(s), <<>>)
    ELSE SplitComma(Tail(s), Append(cur, Head(s)))

\* [p.strip() for p in players.split(",")]
Names(players) ==
    LET parts == SplitComma(players, <<>>)
    IN  [i \in 1..Len(parts) |-> Strip(parts[i])]

\* ----------------------------------------------------------------- dates

\* A missing Player (NaN in the column), kept apart from every text.
NaN == <<"NaN">>

\* pd.NaT: what errors="coerce" leaves for a Date that does not parse.
NaT == -1

DaysInMonth(y, m) ==
    IF m = 2 THEN (IF y % 4 = 0 /\ (y % 100 # 0 \/ y % 400 = 0) THEN 29 ELSE 28)
    ELSE IF m \in {4, 6, 9, 11} THEN 30 ELSE 31

\* A Date cell of the CSV is <<y, m, d>> as written in the file.  pd.to_datetime
\* with errors="coerce" turns a calendar date into a timestamp (here the day's
\* ordinal in a calendar of 12 months of 31 slots) and anything else into NaT.
ToDatetime(raw) ==
    IF /\ raw[2] \in 1..12
       /\ raw[3] \in 1..DaysInMonth(raw[1], raw[2])
    THEN raw[1] * 372 + (raw[2] - 1) * 31 + (raw[3] - 1)
    ELSE NaT

\* Series.dt.year of one timestamp; NaT has no year (NaN, which compares False).
Year(ts) == ts \div 372

\* str(ts.date()): the calendar date again, "NaT" for NaT.
DateStr(ts) ==
    IF ts = NaT THEN <<"NaT">>
    ELSE <<ts \div 372, ((ts % 372) \div 31) + 1, (ts % 31) + 1>>

\* int(x) of a Rating.  A Rating is kept in tenths (9005 is 900.5), so that a
\* float column of the CSV is representable; int() truncates toward zero.
PyInt(x) == IF x >= 0 THEN x \div 10 ELSE -((-x) \div 10)

\* ---------------------------------------------------------------- frames

AllCols == {"Player", "Format", "Category", "Date", "Rank", "Rating"}

\* pd.DataFrame(): no columns, no rows.
EmptyFrame == [cols |-> {}, dtype |-> "none", rows |-> <<>>]

Row(p, f, c, d, rk, rt) ==
    [Player |-> p, Format |-> f, Category |-> c, Date |-> d, Rank |-> rk, Rating |-> rt]

\* pd.read_csv's result for a file with these rows: Date still as written.
RawFrame(rows) == [cols |-> AllCols, dtype |-> "object", rows |-> rows]

\* df["Date"] = pd.to_datetime(df["Date"], errors="coerce")
Coerce(t) ==
    [t EXCEPT !.dtype = "datetime64",
              !.rows = [i \in 1..Len(t.rows) |->
                           [t.rows[i] EXCEPT !.Date = ToDatetime(t.rows[i].Date)]]]

\* A column expression's value: a boolean mask in index order, or the exception
\* raised while computing it.
Ok(m) == [err |-> "none", m |-> m]

Err(e) == [err |-> e, m |-> <<>>]

\* df[col] == v
ColEq(t, col, v) ==
    IF col \notin t.cols THEN Err("KeyError")
    ELSE Ok([i \in 1..Len(t.rows) |-> t.rows[i][col] = v])

\* df["Player"].str.contains(name, case=False, na=False).  A column read from
\* CSV whose every cell is empty is float64, which has no .str accessor.
PlayerContains(t, name) ==
    IF "Player" \notin t.cols THEN Err("KeyError")
    ELSE IF t.rows # <<>> /\ \A i \in 1..Len(t.rows) : t.rows[i].Player = NaN
    THEN Err("AttributeError")
    ELSE Ok([i \in 1..Len(t.rows) |->
                /\ t.rows[i].Player # NaN
                /\ RegexSearch(name, t.rows[i].Player)])

\* df["Date"] == d, d a timestamp or NaT.  NaT equals nothing; a Date column
\* still of dtype object holds text, which equals no timestamp.
DateEq(t, d) ==
    IF "Date" \notin t.cols THEN Err("KeyError")
    ELSE Ok([i \in 1..Len(t.rows) |->
                /\ t.dtype = "datetime64"
                /\ d # NaT
                /\ t.rows[i].Date # NaT
                /\ t.rows[i].Date = d])

\* The upper end of a year range left out: < where the code has <=.
YearCmpStrict(t, op, y) ==
    IF "Date" \notin t.cols THEN Err("KeyError")
    ELSE IF t.dtype # "datetime64" THEN Err("AttributeError")
    ELSE Ok([i \in 1..Len(t.rows) |->
                /\ t.rows[i].Date # NaT
                /\ CASE op = "==" -> Year(t.rows[i].Date) = y
                     [] op = ">=" -> Year(t.rows[i].Date) >= y
                     [] op = "<=" -> Year(t.rows[i].Date) < y])

\* df["Date"].dt.year <op> y.  The .dt accessor exists for datetime64 only.
YearCmp(t, op, y) ==
    IF "Date" \notin t.cols THEN Err("KeyError")
    ELSE IF t.dtype # "datetime64" THEN Err("AttributeError")
    ELSE Ok([i \in 1..Len(t.rows) |->
                /\ t.rows[i].Date # NaT
                /\ CASE op = "==" -> Year(t.rows[i].Date) = y
                     [] op = ">=" -> Year(t.rows[i].Date) >= y
                     [] op = "<=" -> Year(t.rows[i].Date) <= y])

\* One column expression of a handler, evaluated on the frame `df` names now.
EvalMask(t, ms) ==
    CASE ms.kind = "player" -> PlayerContains(t, ms.v)
      [] ms.kind = "eq" -> ColEq(t, ms.col, ms.v)
      [] ms.kind = "date" -> DateEq(t, ms.v)
      [] ms.kind = "year" -> YearCmp(t, ms.op, ms.v)

Max2(a, b) == IF a >= b THEN a ELSE b

\* m1 & m2 of two boolean Series: aligned on the union of their indexes, a label
\* one side lacks counting as False.
MaskAnd(m1, m2) ==
    [i \in 1..Max2(Len(m1), Len(m2)) |->
        /\ i <= Len(m1) /\ m1[i]
        /\ i <= Len(m2) /\ m2[i]]

RECURSIVE AndAll(_)
AndAll(ms) ==
    IF Len(ms) = 1 THEN ms[1]
    ELSE AndAll(<<MaskAnd(ms[1], ms[2])>> \o SubSeq(ms, 3, Len(ms)))

RECURSIVE TakeRows(_, _, _)
TakeRows(rows, mask, i) ==
    IF i > Len(rows) THEN <<>>
    ELSE (IF mask[i] THEN <<rows[i]>> ELSE <<>>) \o TakeRows(rows, mask, i + 1)

\* frame[mask]: the mask is reindexed to the frame's index; a label of the frame
\* that the mask lacks raises IndexingError ("Unalignable boolean Series").
\* The result is a new frame.
Index(t, mask) ==
    IF Len(mask) < Len(t.rows) THEN [err |-> "IndexingError", frame |-> EmptyFrame]
    ELSE [err |-> "none", frame |-> [t EXCEPT !.rows = TakeRows(t.rows, mask, 1)]]

\* data[data[col] == v] on a handler's local frame.
Filter(data, col, v) ==
    LET m == ColEq(data, col, v)
    IN  IF m.err # "none" THEN [err |-> m.err, frame |-> EmptyFrame]
        ELSE Index(data, m.m)

\* DataFrame.to_dict(orient="records"): one mapping per row, over the columns.
ToDict(t) == [i \in 1..Len(t.rows) |-> [c \in t.cols |-> t.rows[i][c]]]

\* DataFrame.head(n): the first n rows; all but the last -n for a negative n.
HeadN(s, n) ==
    IF n >= 0 THEN SubSeq(s, 1, IF n < Len(s) THEN n ELSE Len(s))
    ELSE SubSeq(s, 1, Len(s) + n)

\* -------------------------------------------------------------- handlers

\* A handler's answer: the JSON body, or the exception that ends the request
\* (FastAPI answers 500 Internal Server Error).
Reply(body) == [status |-> "ok", err |-> "none", body |-> body]

Raise(e) == [status |-> "error", err |-> e, body |-> <<>>]

\* `if format:` is false for an absent parameter (None) and for an empty one.
Absent == ""

NoData(name) == [Player |-> name, message |-> "No data found"]

OrAll(v) == IF v # Absent THEN v ELSE "all"

\* DataFrame.empty: some axis has length 0.
IsEmpty(t) == t.rows = <<>> \/ t.cols = {}

\* The two optional filters of /players, /summary and /dominance:
\*   if format: data = data[data["Format"] == format]
\*   if category: data = data[data["Category"] == category]
OptFilters(data, fmt, cat) ==
    LET d1 == IF fmt # Absent THEN Filter(data, "Format", fmt)
              ELSE [err |-> "none", frame |-> data]
    IN  IF d1.err # "none" THEN d1
        ELSE IF cat # Absent THEN Filter(d1.frame, "Category", cat)
        ELSE d1

\* get_player, after data = df[<name mask>].
GetPlayerPost(data, req) ==
    LET d == OptFilters(data, req.fmt, req.cat)
    IN  IF d.err # "none" THEN Raise(d.err) ELSE Reply(ToDict(d.frame))

\* The row counts of /dominance and of the leaderboards.
CountRank1(rows) == Cardinality({i \in 1..Len(rows) : rows[i].Rank = 1})

\* Rank < 5 in place of Rank <= 5.
CountTop5Strict(rows) == Cardinality({i \in 1..Len(rows) : rows[i].Rank < 5})

CountTop5(rows) == Cardinality({i \in 1..Len(rows) : rows[i].Rank <= 5})

CountTop10(rows) == Cardinality({i \in 1..Len(rows) : rows[i].Rank <= 10})

\* dominance, after data = df[<name mask>].
DominancePost(data, req) ==
    LET d == OptFilters(data, req.fmt, req.cat)
    IN  IF d.err # "none" THEN Raise(d.err)
        ELSE IF IsEmpty(d.frame) THEN Reply(NoData(req.name))
        ELSE Reply([Player |-> req.name,
                    Format |-> OrAll(req.fmt),
                    Category |-> OrAll(req.cat),
                    DaysAtRank1 |-> CountRank1(d.frame.rows),
                    DaysInTop5 |-> CountTop5(d.frame.rows),
                    DaysInTop10 |-> CountTop10(d.frame.rows)])

\* The last row holding the maximum, in place of the first.
IdxMaxLast(rows) ==
    CHOOSE i \in 1..Len(rows) :
        /\ \A j \in 1..Len(rows) : rows[j].Rating <= rows[i].Rating
        /\ \A j \in (i + 1)..Len(rows) : rows[j].Rating < rows[i].Rating

\* data["Rating"].idxmax(): the first row, in index order, holding the maximum.
IdxMax(rows) ==
    CHOOSE i \in 1..Len(rows) :
        /\ \A j \in 1..Len(rows) : rows[j].Rating <= rows[i].Rating
        /\ \A j \in 1..(i - 1) : rows[j].Rating < rows[i].Rating

ParsedDates(rows) == {rows[i].Date : i \in 1..Len(rows)} \ {NaT}

\* Series.min() / Series.max() of a datetime64 column: NaT is skipped, and is
\* the result when nothing else is there.
MinDate(rows) ==
    IF ParsedDates(rows) = {} THEN NaT
    ELSE CHOOSE d \in ParsedDates(rows) : \A e \in ParsedDates(rows) : d <= e

MaxDate(rows) ==
    IF ParsedDates(rows) = {} THEN NaT
    ELSE CHOOSE d \in ParsedDates(rows) : \A e \in ParsedDates(rows) : d >= e

\* player_summary, after data = df[<name mask>].  On a Date column of dtype
\* object min() yields text (or fails on mixed cells), which has no .date().
SummaryPost(data, req) ==
    LET d == OptFilters(data, req.fmt, req.cat)
        rows == d.frame.rows
        peak == rows[IdxMax(rows)]
    IN  IF d.err # "none" THEN Raise(d.err)
        ELSE IF IsEmpty(d.frame) THEN Reply(NoData(req.name))
        ELSE IF "Date" \notin d.frame.cols THEN Raise("KeyError")
        ELSE IF d.frame.dtype # "datetime64" THEN Raise("AttributeError")
        ELSE Reply([Player |-> req.name,
                    Format |-> OrAll(req.fmt),
                    Category |-> OrAll(req.cat),
                    PeakRating |-> PyInt(peak.Rating),
                    PeakRank |-> peak.Rank,
                    WeeksAtRank1 |-> CountRank1(rows),
                    FirstAppearance |-> DateStr(MinDate(rows)),
                    LastAppearance |-> DateStr(MaxDate(rows))])

\* sort_values("Rank"): ascending, rows of equal Rank in their index order (the
\* default sort is insertion sort on frames this small).
RECURSIVE InsertByRank(_, _)
InsertByRank(s, x) ==
    IF s = <<>> THEN <<x>>
    ELSE IF x.Rank < Head(s).Rank THEN <<x>> \o s
    ELSE <<Head(s)>> \o InsertByRank(Tail(s), x)

RECURSIVE SortByRank(_)
SortByRank(s) ==
    IF s = <<>> THEN <<>>
    ELSE InsertByRank(SortByRank(SubSeq(s, 1, Len(s) - 1)), s[Len(s)])

\* .head(10) of /top.
TopLimit == 10

\* get_top, after data = df[<format, category and date masks>].
GetTopPost(data, req) ==
    IF "Rank" \notin data.cols THEN Raise("KeyError")
    ELSE Reply(ToDict([data EXCEPT !.rows = HeadN(SortByRank(data.rows), TopLimit)]))

\* groupby("Player"): the group keys, missing Player dropped, in sorted order.
RECURSIVE SortedPlayers(_)
SortedPlayers(S) ==
    IF S = {} THEN <<>>
    ELSE LET m == CHOOSE x \in S : \A y \in S \ {x} : StrLess(x, y)
         IN  <<m>> \o SortedPlayers(S \ {m})

PlayersOf(rows) == {rows[i].Player : i \in 1..Len(rows)} \ {NaN}

RowsOfPlayer(rows, p) == SelectSeq(rows, LAMBDA r : r.Player = p)

\* .agg(DaysAtRank1=..., DaysInTop5=..., DaysInTop10=...).reset_index()
Grouped(rows) ==
    LET ps == SortedPlayers(PlayersOf(rows))
    IN  [i \in 1..Len(ps) |->
            [Player |-> ps[i],
             DaysAtRank1 |-> CountRank1(RowsOfPlayer(rows, ps[i])),
             DaysInTop5 |-> CountTop5(RowsOfPlayer(rows, ps[i])),
             DaysInTop10 |-> CountTop10(RowsOfPlayer(rows, ps[i]))]]

\* Ordering on DaysAtRank1 alone.
TupleGreaterFirstKey(a, b) == a.DaysAtRank1 > b.DaysAtRank1

\* a before b in a descending order on (DaysAtRank1, DaysInTop5, DaysInTop10).
TupleGreater(a, b) ==
    \/ a.DaysAtRank1 > b.DaysAtRank1
    \/ /\ a.DaysAtRank1 = b.DaysAtRank1
       /\ \/ a.DaysInTop5 > b.DaysInTop5
          \/ /\ a.DaysInTop5 = b.DaysInTop5
             /\ a.DaysInTop10 > b.DaysInTop10

\* sort_values([three keys], ascending=[False, False, False]): a lexsort, which
\* keeps rows of equal keys in their order.
RECURSIVE InsertDesc(_, _)
InsertDesc(s, x) ==
    IF s = <<>> THEN <<x>>
    ELSE IF TupleGreater(x, Head(s)) THEN <<x>> \o s
    ELSE <<Head(s)>> \o InsertDesc(Tail(s), x)

RECURSIVE SortDesc(_)
SortDesc(s) ==
    IF s = <<>> THEN <<>>
    ELSE InsertDesc(SortDesc(SubSeq(s, 1, Len(s) - 1)), s[Len(s)])

\* The leaderboard of /leaders, /year-leaders and /decade-leaders.
Leaderboard(rows, top_n) == HeadN(SortDesc(Grouped(rows)), top_n)

\* leaders and year_leaders, after data = df[<masks>].
LeadersPost(data, req) ==
    IF IsEmpty(data) THEN Reply(<<>>)
    ELSE Reply(Leaderboard(data.rows, req.top_n))

\* decade_leaders, after data = df[<masks>].
DecadeLeadersPost(data, req) ==
    IF IsEmpty(data) THEN Reply(<<>>)
    ELSE Reply([Decade |-> req.decade,
                Format |-> req.fmt,
                Category |-> req.cat,
                Leaders |-> Leaderboard(data.rows, req.top_n)])

\* dropna() without unique(): every present value, repeats kept.
RECURSIVE UniqueKeepAll(_, _)
UniqueKeepAll(rows, seen) ==
    IF rows = <<>> THEN <<>>
    ELSE IF Head(rows).Player = NaN THEN UniqueKeepAll(Tail(rows), seen)
    ELSE <<Head(rows).Player>> \o UniqueKeepAll(Tail(rows), seen)

\* Series.dropna().unique(): the values in order of first appearance.
RECURSIVE Unique(_, _)
Unique(rows, seen) ==
    IF rows = <<>> THEN <<>>
    ELSE IF Head(rows).Player = NaN \/ Head(rows).Player \in seen
         THEN Unique(Tail(rows), seen)
    ELSE <<Head(rows).Player>> \o Unique(Tail(rows), seen \cup {Head(rows).Player})

\* matches[:20]
SearchLimit == 20

\* search: df["Player"].dropna().unique(), the names p with
\* query.lower() in p.lower(), the first 20 of them.
SearchPost(data, req) ==
    IF "Player" \notin data.cols THEN Raise("KeyError")
    ELSE Reply(HeadN(SelectSeq(Unique(data.rows, {}),
                               LAMBDA p : Contains(LowerStr(p), LowerStr(req.query))),
                     SearchLimit))

\* What a handler does with its local frame once df[<masks>] is evaluated.
Post(data, req) ==
    CASE req.h = "get_player" -> GetPlayerPost(data, req)
      [] req.h = "summary" -> SummaryPost(data, req)
      [] req.h = "dominance" -> DominancePost(data, req)
      [] req.h = "get_top" -> GetTopPost(data, req)
      [] req.h = "compare" -> Reply(ToDict(data))
      [] req.h = "leaders" -> LeadersPost(data, req)
      [] req.h = "year_leaders" -> LeadersPost(data, req)
      [] req.h = "decade_leaders" -> DecadeLeadersPost(data, req)
      [] req.h = "search" -> SearchPost(data, req)

EqSpec(col, v) == [kind |-> "eq", col |-> col, op |-> "==", v |-> v]

\* The column expressions inside a handler's df[...], in the order Python
\* evaluates them (after it has loaded `df` for the subscript itself); `name` is
\* the name compare's loop is at.
MaskPlan(req, name) ==
    CASE req.h \in {"get_player", "summary", "dominance"} ->
            <<[kind |-> "player", col |-> "Player", op |-> "contains", v |-> req.name]>>
      [] req.h = "get_top" ->
            <<EqSpec("Format", req.fmt), EqSpec("Category", req.cat),
              [kind |-> "date", col |-> "Date", op |-> "==", v |-> ToDatetime(req.date)]>>
      [] req.h = "compare" ->
            <<EqSpec("Format", req.fmt), EqSpec("Category", req.cat),
              [kind |-> "player", col |-> "Player", op |-> "contains", v |-> name]>>
      [] req.h = "leaders" ->
            <<EqSpec("Format", req.fmt), EqSpec("Category", req.cat)>>
      [] req.h = "year_leaders" ->
            <<EqSpec("Format", req.fmt), EqSpec("Category", req.cat),
              [kind |-> "year", col |-> "Date", op |-> "==", v |-> req.year]>>
      [] req.h = "decade_leaders" ->
            <<EqSpec("Format", req.fmt), EqSpec("Category", req.cat),
              [kind |-> "year", col |-> "Date", op |-> ">=", v |-> req.decade],
              [kind |-> "year", col |-> "Date", op |-> "<=", v |-> req.decade + 9]>>
      [] req.h = "search" -> <<>>

\* The names a handler loops over: compare's list, one pass for the others.
LoopNames(req) == IF req.h = "compare" THEN Names(req.players) ELSE <<<<>>>>

\* ----------------------------------------------------------------- state

VARIABLES
    heap,      \* the DataFrame objects created so far, by identity (1, 2, ...)
    df,        \* the global `df`: the identity of the active frame, 0 for None
    ldpc,      \* load_data's position: "idle", or "coerce" (line 26 done, 27 next)
    serving,   \* the startup load_data has returned: requests are being served
    nloads,    \* how many times load_data has been called
    fetched,   \* what read_csv gave the latest load_data call (history)
    old,       \* the frame that was active when that call began (history)
    rd         \* the request in progress: its position, locals and response

vars == <<heap, df, ldpc, serving, nloads, fetched, old, rd>>

NoResp == [status |-> "none", err |-> "none", body |-> <<>>]

NoReq == [h |-> "none"]

IdleReader ==
    [pc |-> "idle", req |-> NoReq, i |-> 1, frame |-> 0, masks |-> <<>>,
     srcs |-> <<>>, acc |-> <<>>, born |-> 0, resp |-> NoResp]

\* The state once the module is imported: df = None, nothing loaded, no request.
Init ==
    /\ heap = <<>>
    /\ df = 0
    /\ ldpc = "idle"
    /\ serving = FALSE
    /\ nloads = 0
    /\ fetched = [ok |-> FALSE, frame |-> EmptyFrame]
    /\ old = EmptyFrame
    /\ rd = IdleReader

\* ------------------------------------------------------------- load_data

\* load_data, line 26, read_csv succeeding: the global is rebound to the frame
\* as read, its Date column not yet converted.  Called once at startup and then
\* by /refresh, one call at a time.
LoadFetch(sources, maxLoads) ==
    /\ ldpc = "idle"
    /\ nloads < maxLoads
    /\ serving <=> nloads > 0
    /\ \E src \in sources :
          /\ heap' = Append(heap, src)
          /\ fetched' = [ok |-> TRUE, frame |-> src]
    /\ df' = Len(heap) + 1
    /\ ldpc' = "coerce"
    /\ nloads' = nloads + 1
    /\ old' = IF df = 0 THEN EmptyFrame ELSE heap[df]
    /\ UNCHANGED <<serving, rd>>

\* load_data whose except branch only logs: the global keeps what it held.
LoadFetchFailStale(maxLoads) ==
    /\ ldpc = "idle"
    /\ nloads < maxLoads
    /\ serving <=> nloads > 0
    /\ fetched' = [ok |-> FALSE, frame |-> EmptyFrame]
    /\ nloads' = nloads + 1
    /\ old' = IF df = 0 THEN EmptyFrame ELSE heap[df]
    /\ serving' = TRUE
    /\ UNCHANGED <<heap, df, ldpc, rd>>

\* load_data, line 26 raising (the URL unreachable, the file malformed): the
\* except branch binds the global to a new pd.DataFrame() and the call returns.
LoadFetchFail(maxLoads) ==
    /\ ldpc = "idle"
    /\ nloads < maxLoads
    /\ serving <=> nloads > 0
    /\ heap' = Append(heap, EmptyFrame)
    /\ df' = Len(heap) + 1
    /\ fetched' = [ok |-> FALSE, frame |-> EmptyFrame]
    /\ nloads' = nloads + 1
    /\ old' = IF df = 0 THEN EmptyFrame ELSE heap[df]
    /\ serving' = TRUE
    /\ UNCHANGED <<ldpc, rd>>

\* load_data, line 27: the Date column of the frame the global names is replaced
\* in place; a frame without a Date column raises KeyError, and the except branch
\* binds the global to a new pd.DataFrame().  Then the call returns.
LoadCoerce ==
    /\ ldpc = "coerce"
    /\ IF "Date" \in heap[df].cols
       THEN /\ heap' = [heap EXCEPT ![df] = Coerce(@)]
            /\ df' = df
       ELSE /\ heap' = Append(heap, EmptyFrame)
            /\ df' = Len(heap) + 1
    /\ ldpc' = "idle"
    /\ serving' = TRUE
    /\ UNCHANGED <<nloads, fetched, old, rd>>

\* --------------------------------------------------------------- requests

StartReader(req, n) ==
    [pc |-> "load", req |-> req, i |-> 1, frame |-> 0, masks |-> <<>>,
     srcs |-> <<>>, acc |-> <<>>, born |-> n, resp |-> NoResp]

Finish(r, resp) == [r EXCEPT !.pc = "done", !.resp = resp]

\* compare's result dict: result[name] = ..., a repeated name overwriting.
CompareDict(acc) ==
    [n \in {acc[j].name : j \in 1..Len(acc)} |->
        acc[CHOOSE j \in 1..Len(acc) :
                /\ acc[j].name = n
                /\ \A k \in (j + 1)..Len(acc) : acc[k].name # n].body]

\* The subscript df[<mask>] itself, once the masks are computed, and the rest of
\* the handler on the local frame it yields.  h[r.frame] is the frame the
\* subscripted `df` was loaded as, in its state now.
ApplyStep(r, h) ==
    LET names == LoopNames(r.req)
        sub == IF r.masks = <<>> THEN [err |-> "none", frame |-> h[r.frame]]
               ELSE Index(h[r.frame], AndAll(r.masks))
        out == Post(sub.frame, r.req)
        acc2 == Append(r.acc, [name |-> names[r.i], body |-> out.body])
    IN  IF sub.err # "none" THEN Finish(r, Raise(sub.err))
        ELSE IF out.status = "error" THEN Finish(r, out)
        ELSE IF r.req.h # "compare" THEN Finish(r, out)
        ELSE IF r.i < Len(names)
             THEN [r EXCEPT !.acc = acc2, !.i = r.i + 1, !.pc = "load", !.masks = <<>>]
        ELSE Finish([r EXCEPT !.acc = acc2], Reply(CompareDict(acc2)))

\* One step of a handler: a load of the global `df` and what is computed from it
\* before the next load.  h is the heap and d the global's value at that moment.
StepReader(r, h, d) ==
    LET plan == MaskPlan(r.req, LoopNames(r.req)[r.i])
        k == Len(r.masks) + 1
        m == EvalMask(h[d], plan[k])
    IN  IF r.pc = "load"
        THEN [r EXCEPT !.frame = d, !.srcs = Append(@, d), !.pc = "masks"]
        ELSE IF k <= Len(plan)
        THEN IF m.err # "none" THEN Finish(r, Raise(m.err))
             ELSE [r EXCEPT !.masks = Append(@, m.m), !.srcs = Append(@, d)]
        ELSE ApplyStep(r, h)

\* A handler run from its first line to its return with nothing in between.
RECURSIVE RunReader(_, _, _)
RunReader(r, h, d) == IF r.pc = "done" THEN r ELSE RunReader(StepReader(r, h, d), h, d)

\* A request arrives (after startup; one handler at a time beside /refresh).
Request(reqs) ==
    /\ serving
    /\ rd.pc = "idle"
    /\ \E req \in reqs :
          rd' = StartReader(req, IF ldpc = "idle" THEN nloads ELSE 0)
    /\ UNCHANGED <<heap, df, ldpc, serving, nloads, fetched, old>>

\* The handler loads the global `df` that its subscript applies to.
ReadFrame ==
    /\ rd.pc = "load"
    /\ rd' = StepReader(rd, heap, df)
    /\ UNCHANGED <<heap, df, ldpc, serving, nloads, fetched, old>>

\* The handler loads `df` again and computes one column expression from it.
ReadMask ==
    /\ rd.pc = "masks"
    /\ Len(rd.masks) < Len(MaskPlan(rd.req, LoopNames(rd.req)[rd.i]))
    /\ rd' = StepReader(rd, heap, df)
    /\ UNCHANGED <<heap, df, ldpc, serving, nloads, fetched, old>>

\* The handler subscripts, computes its answer and returns (or loops, in compare).
Apply ==
    /\ rd.pc = "masks"
    /\ Len(rd.masks) = Len(MaskPlan(rd.req, LoopNames(rd.req)[rd.i]))
    /\ rd' = StepReader(rd, heap, df)
    /\ UNCHANGED <<heap, df, ldpc, serving, nloads, fetched, old>>

\* The response is sent and the handler's locals are gone.
Respond ==
    /\ rd.pc = "done"
    /\ rd' = IdleReader
    /\ UNCHANGED <<heap, df, ldpc, serving, nloads, fetched, old>>

\* A whole request served while no load_data runs.
Serve(reqs) ==
    /\ serving
    /\ ldpc = "idle"
    /\ rd.pc = "idle"
    /\ \E req \in reqs : rd' = RunReader(StartReader(req, nloads), heap, df)
    /\ UNCHANGED <<heap, df, ldpc, serving, nloads, fetched, old>>

\* ------------------------------------------- the server, with /refresh

\* The number of load_data calls, startup included, a behaviour may hold.
MaxLoads == 3

PlayerA == <<"a">>

PlayerB == <<"b">>

PlayerC == <<"c">>

\* Files the URL may serve when fetched.
RowsA ==
    <<Row(PlayerA, "odi", "batting", <<2020, 1, 1>>, 1, 9000),
      Row(PlayerB, "odi", "batting", <<2020, 1, 1>>, 2, 8500)>>

RowsB ==
    <<Row(PlayerB, "odi", "batting", <<2020, 1, 1>>, 1, 8800),
      Row(PlayerA, "odi", "batting", <<2020, 1, 1>>, 2, 8700),
      Row(PlayerC, "odi", "batting", <<2020, 13, 1>>, 3, 8000)>>

\* A file without a Date column: read_csv succeeds, line 27 raises KeyError.
FrameNoDate == [cols |-> AllCols \ {"Date"}, dtype |-> "none", rows |-> RowsA]

Sources == {RawFrame(RowsA), RawFrame(RowsB), FrameNoDate}

Requests ==
    {[h |-> "get_player", name |-> PlayerA, fmt |-> Absent, cat |-> Absent],
     [h |-> "summary", name |-> PlayerA, fmt |-> Absent, cat |-> Absent],
     [h |-> "dominance", name |-> PlayerA, fmt |-> Absent, cat |-> Absent],
     [h |-> "get_top", date |-> <<2020, 1, 1>>, fmt |-> "odi", cat |-> "batting"],
     [h |-> "compare", players |-> <<"a", ",", " ", "b">>, fmt |-> "odi", cat |-> "batting"],
     [h |-> "leaders", fmt |-> "odi", cat |-> "batting", top_n |-> 20],
     [h |-> "year_leaders", year |-> 2020, fmt |-> "odi", cat |-> "batting", top_n |-> 10],
     [h |-> "decade_leaders", decade |-> 2020, fmt |-> "odi", cat |-> "batting", top_n |-> 10]}

Next ==
    \/ LoadFetch(Sources, MaxLoads)
    \/ LoadFetchFail(MaxLoads)
    \/ LoadCoerce
    \/ Request(Requests)
    \/ ReadFrame
    \/ ReadMask
    \/ Apply
    \/ Respond

Spec == Init /\ [][Next]_vars

\* The table a load_data call is to produce from what read_csv gave it: the
\* fetched rows with every Date parsed, or the empty table when the call fails.
Produced(f) ==
    IF f.ok /\ "Date" \in f.frame.cols
    THEN [cols |-> f.frame.cols,
          dtype |-> "datetime64",
          rows |-> [i \in 1..Len(f.frame.rows) |->
                       [f.frame.rows[i] EXCEPT !.Date = ToDatetime(f.frame.rows[i].Date)]]]
    ELSE EmptyFrame

LeaderboardHandlers == {"leaders", "year_leaders", "decade_leaders"}

\* C1: refresh is atomic.  While /refresh runs load_data, a request that loads
\* the global `df` gets either the table that was active before the refresh or
\* the table the refresh produces (all rows, Date parsed), nothing in between.
C1_RefreshAtomic ==
    (serving /\ ldpc # "idle" /\ rd.pc \in {"load", "masks"})
        => heap[df] \in {old, Produced(fetched)}

\* C2: a query handler answers from one snapshot.  Every load of `df` made for
\* an answered request (the subscripted frame and each mask) named the same table.
C2_OneSnapshot ==
    (rd.pc = "done" /\ rd.resp.status = "ok")
        => \A i, j \in 1..Len(rd.srcs) : rd.srcs[i] = rd.srcs[j]

\* C3: after a load that failed, a request never fails: the leaderboards answer
\* the empty sequence, /summary and /dominance the "No data found" marker.
C3_EmptyStoreAnswers ==
    (rd.pc = "done" /\ rd.born = nloads /\ ldpc = "idle" /\ Produced(fetched) = EmptyFrame)
        => /\ rd.req.h \in LeaderboardHandlers => rd.resp = Reply(<<>>)
           /\ rd.req.h \in {"summary", "dominance"} => rd.resp = Reply(NoData(rd.req.name))

\* C4: a load replaces the store wholesale.  Once load_data has returned, the
\* active table is exactly what that call fetched, dates parsed, or the empty
\* table if the call failed; a request begun after it loads nothing else.
C4_WholesaleReplace ==
    (ldpc = "idle" /\ nloads > 0)
        => /\ df # 0
           /\ heap[df] = Produced(fetched)
           /\ rd.born = nloads =>
                 \A i \in 1..Len(rd.srcs) : heap[rd.srcs[i]] = Produced(fetched)

\* A refresh failed over a table that had rows, and a request begun after it
\* has been answered.
C4_Witness ==
    /\ ldpc = "idle"
    /\ nloads >= 2
    /\ ~fetched.ok
    /\ old.rows # <<>>
    /\ rd.pc = "done"
    /\ rd.born = nloads
    /\ rd.srcs # <<>>

\* ----------------------------------------------- queries on a loaded table
\* The specifications below check the handlers as functions of the table: the
\* startup load_data fetches one file of a bounded family, and then requests are
\* served one at a time with no /refresh running.

SeqsUpTo(S, n) == UNION {[1..k -> S] : k \in 0..n}

\* -- the name filter (/players, /summary, /dominance, /compare)

MaxRowsName == 2

NamePlayers == {<<"a", "b">>, <<"A">>, <<"b", ".">>, NaN}

NameRows ==
    {Row(p, f, "batting", <<2020, 1, 1>>, 1, 9000) : p \in NamePlayers, f \in {"odi", "test"}}

NameSources == {RawFrame(rows) : rows \in SeqsUpTo(NameRows, MaxRowsName)}

NamePatterns == {<<"a">>, <<"A", "B">>, <<".">>, <<"b", ".">>, <<"c">>}

NameRequests ==
    {[h |-> h, name |-> n, fmt |-> f, cat |-> c] :
        h \in {"get_player", "summary", "dominance"}, n \in NamePatterns,
        f \in {Absent, "odi"}, c \in {Absent, "batting"}}
    \cup
    {[h |-> "compare", players |-> ps, fmt |-> "odi", cat |-> "batting"] :
        ps \in {<<"a", ",", " ", "B">>, <<"A", "b", " ", ",", ".">>, <<"b", ".">>}}

NextName ==
    \/ LoadFetch(NameSources, 1)
    \/ LoadCoerce
    \/ Serve(NameRequests)
    \/ Respond

SpecName == Init /\ [][NextName]_vars

\* The rows the claim says a name selects: Player present and containing the name
\* as a literal substring, case ignored; then the optional exact-match filters.
LiteralRows(rows, name, fmt, cat) ==
    SelectSeq(rows, LAMBDA r :
        /\ r.Player # NaN
        /\ Contains(LowerStr(r.Player), LowerStr(name))
        /\ fmt = Absent \/ r.Format = fmt
        /\ cat = Absent \/ r.Category = cat)

ActiveRows == heap[df].rows

\* C5: the name filter is sound and complete.  An answered /players or /compare
\* returns exactly the rows whose Player contains the name literally, case
\* ignored; /summary and /dominance answer "No data found" exactly when there is
\* no such row, and count exactly those rows otherwise.
C5_NameFilterExact ==
    (rd.pc = "done" /\ rd.resp.status = "ok" /\ rd.req.h \in {"get_player", "summary", "dominance", "compare"})
        => LET q == rd.req
               body == rd.resp.body
               want(n) == LiteralRows(ActiveRows, n, q.fmt, q.cat)
           IN  CASE q.h = "get_player" ->
                       body = ToDict([heap[df] EXCEPT !.rows = want(q.name)])
                 [] q.h = "compare" ->
                       \A n \in DOMAIN body :
                           body[n] = ToDict([heap[df] EXCEPT !.rows = want(n)])
                 [] q.h = "dominance" ->
                       IF want(q.name) = <<>> THEN body = NoData(q.name)
                       ELSE body # NoData(q.name) /\ body.DaysAtRank1 = Len(want(q.name))
                 [] q.h = "summary" ->
                       IF want(q.name) = <<>> THEN body = NoData(q.name)
                       ELSE body # NoData(q.name) /\ body.WeeksAtRank1 = Len(want(q.name))

\* The rows a handler's own filter leaves: the name mask of the code, then the
\* optional exact-match filters.
MatchedRows(t, q) ==
    LET m == PlayerContains(t, q.name).m
    IN  SelectSeq(TakeRows(t.rows, m, 1), LAMBDA r :
            /\ q.fmt = Absent \/ r.Format = q.fmt
            /\ q.cat = Absent \/ r.Category = q.cat)

NumWhere(rows, P(_)) == Cardinality({i \in 1..Len(rows) : P(rows[i])})

\* -- /dominance

MaxRowsDominance == 3

DominanceRows ==
    {Row(p, "odi", "batting", <<2020, 1, 1>>, rk, 9000) :
        p \in {PlayerA, PlayerB}, rk \in {1, 5, 6, 10, 11}}
    \cup {Row(PlayerA, "test", "batting", <<2020, 1, 1>>, 1, 9000)}

DominanceSources == {RawFrame(rows) : rows \in SeqsUpTo(DominanceRows, MaxRowsDominance)}

DominanceRequests ==
    {[h |-> "dominance", name |-> n, fmt |-> f, cat |-> c] :
        n \in {PlayerA, <<".">>}, f \in {Absent, "odi"}, c \in {Absent, "bowling"}}

NextDominance ==
    \/ LoadFetch(DominanceSources, 1)
    \/ LoadCoerce
    \/ Serve(DominanceRequests)
    \/ Respond

SpecDominance == Init /\ [][NextDominance]_vars

\* C6: when /dominance finds a row, DaysAtRank1 <= DaysInTop5 <= DaysInTop10,
\* and the three are the numbers of matched rows with Rank = 1, Rank <= 5 and
\* Rank <= 10.
C6_DominanceCounts ==
    (rd.pc = "done" /\ rd.req.h = "dominance" /\ MatchedRows(heap[df], rd.req) # <<>>)
        => LET b == rd.resp.body
               rows == MatchedRows(heap[df], rd.req)
           IN  /\ rd.resp.status = "ok"
               /\ b # NoData(rd.req.name)
               /\ b.DaysAtRank1 <= b.DaysInTop5
               /\ b.DaysInTop5 <= b.DaysInTop10
               /\ b.DaysAtRank1 = NumWhere(rows, LAMBDA r : r.Rank = 1)
               /\ b.DaysInTop5 = NumWhere(rows, LAMBDA r : r.Rank <= 5)
               /\ b.DaysInTop10 = NumWhere(rows, LAMBDA r : r.Rank <= 10)

\* /dominance answered for rows at Rank 5 and beyond 10: the three counts differ.
C6_Witness ==
    /\ rd.pc = "done"
    /\ rd.req.h = "dominance"
    /\ rd.resp.status = "ok"
    /\ Len(MatchedRows(heap[df], rd.req)) >= 2
    /\ rd.resp.body.DaysAtRank1 < rd.resp.body.DaysInTop5
    /\ \E i \in 1..Len(heap[df].rows) : heap[df].rows[i].Rank = 5

\* -- /summary

MaxRowsSummary == 2

SummaryRows ==
    {Row(p, "odi", "batting", d, rk, rt) :
        p \in {PlayerA, PlayerB}, d \in {<<2020, 1, 1>>, <<2020, 6, 1>>, <<2020, 2, 30>>},
        rk \in {1, 3}, rt \in {8500, 9005}}

SummarySources == {RawFrame(rows) : rows \in SeqsUpTo(SummaryRows, MaxRowsSummary)}

SummaryRequests ==
    {[h |-> "summary", name |-> n, fmt |-> f, cat |-> Absent] :
        n \in {PlayerA, <<".">>}, f \in {Absent, "odi"}}

NextSummary ==
    \/ LoadFetch(SummarySources, 1)
    \/ LoadCoerce
    \/ Serve(SummaryRequests)
    \/ Respond

SpecSummary == Init /\ [][NextSummary]_vars

\* The file's rows behind the matched rows: Date as written in the CSV.
MatchedRaw == MatchedRows(fetched.frame, rd.req)

IsCalendarDate(d) == d[2] \in 1..12 /\ d[3] \in 1..DaysInMonth(d[1], d[2])

DateLeq(d, e) ==
    \/ d[1] < e[1]
    \/ d[1] = e[1] /\ d[2] < e[2]
    \/ d[1] = e[1] /\ d[2] = e[2] /\ d[3] <= e[3]

ValidDates(rows) == {rows[i].Date : i \in {j \in 1..Len(rows) : IsCalendarDate(rows[j].Date)}}

MaxRating(rows) ==
    CHOOSE x \in {rows[i].Rating : i \in 1..Len(rows)} :
        \A i \in 1..Len(rows) : rows[i].Rating <= x

FirstAt(rows, x) == CHOOSE i \in 1..Len(rows) :
    rows[i].Rating = x /\ \A j \in 1..(i - 1) : rows[j].Rating # x

\* What C8 says of every field but PeakRating.
SummaryRest(b, rows) ==
    /\ b.PeakRank = rows[FirstAt(rows, MaxRating(rows))].Rank
    /\ b.WeeksAtRank1 = NumWhere(rows, LAMBDA r : r.Rank = 1)
    /\ ValidDates(rows) # {} =>
          /\ b.FirstAppearance \in ValidDates(rows)
          /\ b.LastAppearance \in ValidDates(rows)
          /\ \A d \in ValidDates(rows) :
                DateLeq(b.FirstAppearance, d) /\ DateLeq(d, b.LastAppearance)

SummaryAnswered ==
    /\ rd.pc = "done"
    /\ rd.req.h = "summary"
    /\ MatchedRaw # <<>>

\* C8 as claimed: PeakRating is the maximum Rating among the matched rows (a
\* Rating is kept in tenths), PeakRank the Rank of the first row attaining it,
\* WeeksAtRank1 the number of matched rows with Rank = 1, FirstAppearance and
\* LastAppearance the least and greatest parsed Date.
C8_SummaryAsClaimed ==
    SummaryAnswered
        => /\ rd.resp.status = "ok"
           /\ rd.resp.body # NoData(rd.req.name)
           /\ rd.resp.body.PeakRating * 10 = MaxRating(MatchedRaw)
           /\ SummaryRest(rd.resp.body, MatchedRaw)

\* C8 amended: PeakRating is the maximum Rating among the matched rows truncated
\* to an integer (the maximum itself when it is a whole number); the other
\* fields are as claimed.
C8_SummaryTruncated ==
    SummaryAnswered
        => /\ rd.resp.status = "ok"
           /\ rd.resp.body # NoData(rd.req.name)
           /\ rd.resp.body.PeakRating * 10 <= MaxRating(MatchedRaw)
           /\ MaxRating(MatchedRaw) < rd.resp.body.PeakRating * 10 + 10
           /\ SummaryRest(rd.resp.body, MatchedRaw)

\* /summary answered for two matched rows that tie on the peak Rating at
\* different Ranks, one with a Date that does not parse.
C8_Witness ==
    /\ SummaryAnswered
    /\ rd.resp.status = "ok"
    /\ Len(MatchedRaw) = 2
    /\ MatchedRaw[1].Rating = MatchedRaw[2].Rating
    /\ MatchedRaw[1].Rank # MatchedRaw[2].Rank
    /\ ~IsCalendarDate(MatchedRaw[1].Date)
    /\ IsCalendarDate(MatchedRaw[2].Date)

\* -- the leaderboards

MaxRowsLeaders == 3

LeadersRows ==
    {Row(p, "odi", "batting", <<2020, 1, 1>>, rk, 9000) :
        p \in {PlayerA, PlayerB}, rk \in {1, 4, 8, 12}}
    \cup
    {Row(PlayerC, "odi", "batting", <<2020, 1, 1>>, 1, 9000),
     Row(NaN, "odi", "batting", <<2020, 1, 1>>, 1, 9000),
     Row(PlayerB, "test", "batting", <<2020, 1, 1>>, 1, 9000),
     Row(PlayerB, "odi", "batting", <<2019, 12, 31>>, 1, 9000)}

LeadersSources == {RawFrame(rows) : rows \in SeqsUpTo(LeadersRows, MaxRowsLeaders)}

LeadersRequests ==
    {[h |-> "leaders", fmt |-> "odi", cat |-> "batting", top_n |-> n] : n \in {-1, 0, 1, 2, 20}}
    \cup
    {[h |-> "year_leaders", year |-> 2020, fmt |-> "odi", cat |-> "batting", top_n |-> n] :
        n \in {1, 10}}
    \cup
    {[h |-> "decade_leaders", decade |-> 2020, fmt |-> "odi", cat |-> "batting", top_n |-> n] :
        n \in {1, 10}}

NextLeaders ==
    \/ LoadFetch(LeadersSources, 1)
    \/ LoadCoerce
    \/ Serve(LeadersRequests)
    \/ Respond

SpecLeaders == Init /\ [][NextLeaders]_vars

\* Whether a row of the file, Date as written, is in the request's segment.
InSegment(r, q) ==
    /\ r.Format = q.fmt
    /\ r.Category = q.cat
    /\ CASE q.h = "leaders" -> TRUE
         [] q.h = "year_leaders" -> IsCalendarDate(r.Date) /\ r.Date[1] = q.year
         [] q.h = "decade_leaders" ->
                IsCalendarDate(r.Date) /\ r.Date[1] >= q.decade /\ r.Date[1] <= q.decade + 9

SegmentRows(q) == SelectSeq(fetched.frame.rows, LAMBDA r : InSegment(r, q))

SegmentPlayers(q) == {SegmentRows(q)[i].Player : i \in 1..Len(SegmentRows(q))} \ {NaN}

\* A player's (DaysAtRank1, DaysInTop5, DaysInTop10) over the segment.
Tally(q, p) ==
    <<NumWhere(SegmentRows(q), LAMBDA r : r.Player = p /\ r.Rank = 1),
      NumWhere(SegmentRows(q), LAMBDA r : r.Player = p /\ r.Rank <= 5),
      NumWhere(SegmentRows(q), LAMBDA r : r.Player = p /\ r.Rank <= 10)>>

EntryTuple(e) == <<e.DaysAtRank1, e.DaysInTop5, e.DaysInTop10>>

LexGreater(a, b) ==
    \/ a[1] > b[1]
    \/ a[1] = b[1] /\ a[2] > b[2]
    \/ a[1] = b[1] /\ a[2] = b[2] /\ a[3] > b[3]

\* The sequence of entries an answered leaderboard request returned.
LeadersOf(r) == IF r.req.h = "decade_leaders" /\ r.resp.body # <<>> THEN r.resp.body.Leaders
                ELSE r.resp.body

LeadersAnswered == rd.pc = "done" /\ rd.req.h \in LeaderboardHandlers

\* C7: a leaderboard is a descending sort of the per-player counts.  Each entry
\* is a player of the segment with that player's three counts, no player twice;
\* adjacent entries are in descending lexicographic order; with a positive top_n
\* there are at most top_n entries and no omitted player outranks a returned one.
C7_LeaderboardSorted ==
    LeadersAnswered
        => LET q == rd.req
               L == LeadersOf(rd)
           IN  /\ rd.resp.status = "ok"
               /\ \A i \in 1..Len(L) :
                     /\ L[i].Player \in SegmentPlayers(q)
                     /\ EntryTuple(L[i]) = Tally(q, L[i].Player)
               /\ \A i, j \in 1..Len(L) : i # j => L[i].Player # L[j].Player
               /\ \A i \in 1..(Len(L) - 1) :
                     ~LexGreater(EntryTuple(L[i + 1]), EntryTuple(L[i]))
               /\ q.top_n > 0 =>
                     /\ Len(L) <= q.top_n
                     /\ Len(L) = q.top_n \/ Len(L) = Cardinality(SegmentPlayers(q))
                     /\ \A p \in SegmentPlayers(q) \ {L[i].Player : i \in 1..Len(L)} :
                           \A i \in 1..Len(L) : ~LexGreater(Tally(q, p), EntryTuple(L[i]))

\* A leaderboard of three players cut to two by top_n, the player left out
\* tying the last entry on DaysAtRank1 and losing to it on DaysInTop5.
C7_Witness ==
    /\ LeadersAnswered
    /\ rd.resp.status = "ok"
    /\ rd.req.top_n = 2
    /\ Len(LeadersOf(rd)) = 2
    /\ Cardinality(SegmentPlayers(rd.req)) = 3
    /\ \E p \in SegmentPlayers(rd.req) \ {LeadersOf(rd)[1].Player, LeadersOf(rd)[2].Player} :
          /\ Tally(rd.req, p)[1] = LeadersOf(rd)[2].DaysAtRank1
          /\ Tally(rd.req, p)[2] < LeadersOf(rd)[2].DaysInTop5

\* -- /decade-leaders and the decade's span

MaxRowsDecade == 2

DecadeRows ==
    {Row(p, "odi", "batting", d, rk, 9000) :
        p \in {PlayerA, PlayerB}, rk \in {1, 7},
        d \in {<<2009, 12, 31>>, <<2010, 1, 1>>, <<2019, 12, 31>>, <<2020, 1, 1>>, <<2015, 2, 30>>}}
    \cup {Row(PlayerA, "test", "batting", <<2015, 6, 1>>, 1, 9000)}

DecadeSources == {RawFrame(rows) : rows \in SeqsUpTo(DecadeRows, MaxRowsDecade)}

DecadeRequests ==
    {[h |-> "decade_leaders", decade |-> d, fmt |-> "odi", cat |-> "batting", top_n |-> 10] :
        d \in {2000, 2010, 2020}}

NextDecade ==
    \/ LoadFetch(DecadeSources, 1)
    \/ LoadCoerce
    \/ Serve(DecadeRequests)
    \/ Respond

SpecDecade == Init /\ [][NextDecade]_vars

\* C9: /decade-leaders counts the rows of the format and category whose parsed
\* Date has its year in [decade, decade + 9], and only those: a player has an
\* entry exactly when such a row is theirs, and the entry's counts are over
\* those rows (years decade - 1 and decade + 10 and unparseable Dates left out).
C9_DecadeSpan ==
    (rd.pc = "done" /\ rd.req.h = "decade_leaders")
        => LET q == rd.req
               L == LeadersOf(rd)
           IN  /\ rd.resp.status = "ok"
               /\ {L[i].Player : i \in 1..Len(L)} = SegmentPlayers(q)
               /\ \A i \in 1..Len(L) : EntryTuple(L[i]) = Tally(q, L[i].Player)

\* /decade-leaders answered over a table holding a row of the decade's last
\* year and a row of the year after it.
C9_Witness ==
    /\ rd.pc = "done"
    /\ rd.req.h = "decade_leaders"
    /\ rd.resp.status = "ok"
    /\ Len(LeadersOf(rd)) = 1
    /\ Len(fetched.frame.rows) = 2
    /\ \E i, j \in 1..2 :
          /\ fetched.frame.rows[i].Date[1] = rd.req.decade + 9
          /\ fetched.frame.rows[j].Date[1] = rd.req.decade + 10
          /\ fetched.frame.rows[i].Player = fetched.frame.rows[j].Player

\* -- /search

MaxRowsSearch == 24

\* The Player column of a long file: names that repeat, differ in case only,
\* are missing, or hold a ".".  A table is a run of it, every row or every
\* seventh, from some row on (wrapping around).
SearchColumn ==
    <<<<"a">>, <<"b">>, <<"A">>, NaN, <<"a", "b">>, <<"a">>,
      <<"b", "a">>, <<"a", "a">>, <<"A", "b">>, <<"c">>, <<"a", "c">>, <<"c", "a">>,
      <<"a", "B">>, <<"b", "a">>, <<"a", "a", "a">>, <<"a", "a", "b">>,
      <<"a", "b", "a">>, <<"b", "a", "a">>, <<"a", "b", "b">>, <<"b", "a", "b">>,
      <<"b", "b", "a">>, <<"a", "a", "c">>, <<"a", "c", "a">>, <<"c", "a", "a">>,
      <<"a", ".">>, <<"c", "a", "c">>, <<"c", "c", "a">>, <<"A", "A">>,
      <<"B", "A">>, <<"b", "b">>>>

SearchRows(start, stride, n) ==
    [i \in 1..n |->
        Row(SearchColumn[((start + (i - 1) * stride) % Len(SearchColumn)) + 1],
            "odi", "batting", <<2020, 1, 1>>, 1, 9000)]

SearchSources ==
    {RawFrame(SearchRows(start, stride, n)) :
        start \in 0..(Len(SearchColumn) - 1), stride \in {1, 7}, n \in 0..MaxRowsSearch}

SearchRequests ==
    {[h |-> "search", query |-> q] :
        q \in {<<>>, <<"a">>, <<"A", "b">>, <<"c", "A">>, <<".">>}}

NextSearch ==
    \/ LoadFetch(SearchSources, 1)
    \/ LoadCoerce
    \/ Serve(SearchRequests)
    \/ Respond

SpecSearch == Init /\ [][NextSearch]_vars

\* Where a name first occurs in the active table.
FirstRow(p) ==
    CHOOSE i \in 1..Len(ActiveRows) :
        ActiveRows[i].Player = p /\ \A j \in 1..(i - 1) : ActiveRows[j].Player # p

\* The distinct present names that contain the query, case ignored.
SearchMatches(q) ==
    {p \in {ActiveRows[i].Player : i \in 1..Len(ActiveRows)} :
        p # NaN /\ Contains(LowerStr(p), LowerStr(q))}

\* C10: /search returns the distinct non-null names containing the query as a
\* case-insensitive substring, each once, in order of first occurrence in the
\* table, cut to the first 20.
C10_SearchFirstTwenty ==
    (rd.pc = "done" /\ rd.req.h = "search")
        => LET B == rd.resp.body
               M == SearchMatches(rd.req.query)
           IN  /\ rd.resp.status = "ok"
               /\ \A k \in 1..Len(B) : B[k] \in M
               /\ \A k, l \in 1..Len(B) : k < l => FirstRow(B[k]) < FirstRow(B[l])
               /\ Len(B) = (IF Cardinality(M) < 20 THEN Cardinality(M) ELSE 20)
               /\ \A p \in M \ {B[k] : k \in 1..Len(B)} :
                     \A k \in 1..Len(B) : FirstRow(B[k]) < FirstRow(p)

\* /search answered with 20 names out of more matches, in a table where a
\* returned name occurs twice.
C10_Witness ==
    /\ rd.pc = "done"
    /\ rd.req.h = "search"
    /\ rd.resp.status = "ok"
    /\ Len(rd.resp.body) = 20
    /\ Cardinality(SearchMatches(rd.req.query)) > 20
    /\ \E i, j \in 1..Len(ActiveRows) :
          /\ i < j
          /\ ActiveRows[i].Player = ActiveRows[j].Player
          /\ \E k \in 1..20 : rd.resp.body[k] = ActiveRows[i].Player

====
